---- MODULE Spec2Model ----
(***************************************************************************)
(* A model of tomviz::ModuleRuler (src/tomviz/ModuleRuler.cxx): the ruler  *)
(* module that owns a ruler source proxy and its representation, binds an  *)
(* endpoint widget into the properties panel and saves/restores its state. *)
(*                                                                         *)
(* Everything runs on the GUI thread, so each handler is one atomic        *)
(* action.  A null-pointer dereference ends the process: pc = "crashed"    *)
(* and the module state is left as it was before the call.                 *)
(***************************************************************************)
EXTENDS Integers, FiniteSets, Sequences, TLC

\* ------------------------------------------------------------------ bounds
\* how many times initialize may create proxies (two proxies per call)
MaxInits == 2
\* how many endpoint widgets addToPanel may create
MaxWidgets == 1

Null == 0
Proxies == 1..(2 * MaxInits)
WidgetIds == 1..MaxWidgets
\* endpoint coordinates: the two corners of the data's bounding box
Points == {"boundsMin", "boundsMax"}

VARIABLES
  pc,               \* "alive", "destroyed" (after ~ModuleRuler) or "crashed"
  m_rulerSource,    \* vtkSmartPointer<vtkSMSourceProxy>: a proxy or Null
  m_representation, \* vtkSmartPointer<vtkSMProxy>: a proxy or Null
  registered,       \* proxies registered with the pipeline controller
  nextProxy,        \* the next proxy the proxy manager hands out
  point1, point2,   \* Point1 / Point2 of the proxy m_rulerSource points to
  repVisibility,    \* Visibility (int) of the proxy m_representation points to
  dataConnected,    \* DataSource::dataChanged is connected to updateUnits
  m_showLine,       \* the cached ShowLine preference
  m_widget,         \* QPointer<pqLinePropertyWidget>: a widget or Null
  widgets,          \* the live endpoint widgets: id -> record
  nextWidget,       \* the next widget addToPanel creates
  lastOp, lastArg,  \* history: the last call that returned, and its data
  lastSetVisibility \* history: the value of the latest setVisibility, if any

vars == <<pc, m_rulerSource, m_representation, registered, nextProxy, point1,
          point2, repVisibility, dataConnected, m_showLine,
          m_widget, widgets, nextWidget, lastOp, lastArg,
          lastSetVisibility>>

proxyVars == <<m_rulerSource, m_representation, registered, nextProxy>>
propVars == <<point1, point2, repVisibility>>
widgetVars == <<m_widget, widgets, nextWidget>>

\* ------------------------------------------------------- proxy identity
isProxyPartOfModule(proxy) ==
  proxy = m_rulerSource \/ proxy = m_representation

getStringForProxy(proxy) ==
  IF proxy = m_rulerSource THEN "Ruler"
  ELSE IF proxy = m_representation THEN "Representation"
  ELSE ""

getProxyForString(str) ==
  IF str = "Ruler" THEN m_rulerSource
  ELSE IF str = "Representation" THEN m_representation
  ELSE Null

visibility ==
  IF m_representation # Null THEN repVisibility # 0 ELSE FALSE

\* --------------------------------------------------------------- lifecycle
Init ==
  /\ pc = "alive"
  /\ m_rulerSource = Null
  /\ m_representation = Null
  /\ registered = {}
  /\ nextProxy = 1
  /\ point1 = "boundsMin"
  /\ point2 = "boundsMin"
  /\ repVisibility = 0
  /\ dataConnected = FALSE
  /\ m_showLine \in BOOLEAN
  /\ m_widget = Null
  /\ widgets = << >>
  /\ nextWidget = 1
  /\ lastOp = "none"
  /\ lastArg = FALSE
  /\ lastSetVisibility = {}

Crash ==
  /\ pc' = "crashed"
  /\ UNCHANGED <<proxyVars, propVars, dataConnected, m_showLine, widgetVars, lastOp, lastArg, lastSetVisibility>>

\* The proxies finalize leaves registered: both owned proxies are
\* unregistered (unregistering a null proxy does nothing).
UnRegisterOwned(reg, src, rep) == reg \ {rep, src}

\* The pointers finalize leaves in m_representation and m_rulerSource.
ClearedRepresentation_kept(rep) == rep
ClearedRepresentation(rep) == Null
ClearedSource_kept(src) == src
ClearedSource(src) == Null

initialize(baseOk, newOk, showOk) ==
  /\ pc = "alive"
  /\ baseOk => nextProxy + 1 <= 2 * MaxInits
  /\ IF ~baseOk
       THEN \* Module::initialize failed: return false
            /\ lastOp' = "initialize"
            /\ lastArg' = [ret |-> FALSE]
            /\ UNCHANGED <<pc, proxyVars, propVars, dataConnected, m_showLine,
                           widgetVars, lastSetVisibility>>
       ELSE IF ~newOk \/ ~showOk
         THEN \* NewProxy or Show gave null: the next line dereferences it
              Crash
         ELSE /\ m_rulerSource' = nextProxy
              /\ m_representation' = nextProxy + 1
              /\ registered' = registered \cup {nextProxy, nextProxy + 1}
              /\ nextProxy' = nextProxy + 2
              /\ point1' = "boundsMin"
              /\ point2' = "boundsMax"
              /\ repVisibility' = 1
              /\ dataConnected' = TRUE
              /\ lastOp' = "initialize"
              /\ lastArg' = [ret |-> TRUE]
              /\ UNCHANGED <<pc, m_showLine, widgetVars,
                             lastSetVisibility>>

FinalizeBody ==
  /\ registered' = UnRegisterOwned(registered, m_rulerSource, m_representation)
  /\ m_representation' = ClearedRepresentation(m_representation)
  /\ m_rulerSource' = ClearedSource(m_rulerSource)
  /\ point1' = "boundsMin"
  /\ point2' = "boundsMin"
  /\ repVisibility' = 0
  /\ lastArg' = [source |-> m_rulerSource, representation |-> m_representation]
  /\ UNCHANGED <<nextProxy, m_showLine, m_widget, nextWidget, lastSetVisibility>>

finalize ==
  /\ pc = "alive"
  /\ FinalizeBody
  /\ lastOp' = "finalize"
  /\ UNCHANGED <<pc, dataConnected, widgets>>

\* ~ModuleRuler: finalize, then QObject's destructor drops every connection.
Destructor ==
  /\ pc = "alive"
  /\ FinalizeBody
  /\ lastOp' = "destructor"
  /\ pc' = "destroyed"
  /\ dataConnected' = FALSE
  /\ widgets' = [w \in DOMAIN widgets |-> [widgets[w] EXCEPT !.connected = FALSE]]

\* ------------------------------------------------------ endpoint widget
\* updateShowLine(show): the value m_showLine takes.
updateShowLine(show) == show

\* pqLinePropertyWidget emitting widgetVisibilityUpdated(show): the slot runs
\* synchronously when the signal is connected; the result is m_showLine.
EmitWidgetVisibilityUpdated(connected, emits, show, cur) ==
  IF connected /\ emits THEN updateShowLine(show) ELSE cur

\* The widget created by addToPanel: shown as m_showLine says, its
\* widgetVisibilityUpdated signal connected to updateShowLine.
NewWidget(showLine, src) ==
  [visible |-> showLine, connected |-> TRUE, prepared |-> FALSE, proxy |-> src]

addToPanel(emits) ==
  /\ pc = "alive"
  /\ nextWidget <= MaxWidgets
  /\ IF m_rulerSource = Null
       THEN \* m_rulerSource->GetPropertyGroup(0) on a null pointer
            Crash
       ELSE /\ widgets' = (nextWidget :> NewWidget(m_showLine, m_rulerSource)) @@ widgets
            /\ m_widget' = nextWidget
            /\ nextWidget' = nextWidget + 1
            /\ m_showLine' =
                 EmitWidgetVisibilityUpdated(TRUE, emits, m_showLine, m_showLine)
            /\ lastOp' = "addToPanel"
            /\ lastArg' = FALSE
            /\ UNCHANGED <<pc, proxyVars, propVars, dataConnected,
                           lastSetVisibility>>

\* disconnect(m_widget, widgetVisibilityUpdated, this, updateShowLine)
disconnect_noop(ws, w) == ws
disconnect(ws, w) == [ws EXCEPT ![w].connected = FALSE]

prepareToRemoveFromPanel ==
  /\ pc = "alive"
  /\ widgets' =
       IF m_widget = Null
         THEN widgets
         ELSE [disconnect(widgets, m_widget) EXCEPT ![m_widget].prepared = TRUE]
  /\ lastOp' = "prepareToRemoveFromPanel"
  /\ lastArg' = FALSE
  /\ UNCHANGED <<pc, proxyVars, propVars, dataConnected, m_showLine, m_widget,
                 nextWidget, lastSetVisibility>>

\* The int setVisibility stores in the representation's Visibility.
VisibilityValue_on(val) == 1
VisibilityValue(val) == IF val THEN 1 ELSE 0

\* The argument setVisibility passes to setWidgetVisible.
WidgetShown_whole(val, showLine) == val
WidgetShown(val, showLine) == val /\ showLine

\* m_showLine at the end of setVisibility: the cached value is restored
\* after the widget's signal has run updateShowLine.
RestoreShowLine_skipped(oldValue, afterEmit) == afterEmit
RestoreShowLine(oldValue, afterEmit) == oldValue

setVisibility(val, emits) ==
  /\ pc = "alive"
  /\ IF m_representation = Null
       THEN \* vtkSMPropertyHelper / UpdateVTKObjects on a null proxy
            Crash
       ELSE /\ repVisibility' = VisibilityValue(val)
            /\ IF m_widget # Null
                 THEN LET oldValue == m_showLine
                          shown == WidgetShown(val, m_showLine)
                          afterEmit == EmitWidgetVisibilityUpdated(
                                         widgets[m_widget].connected, emits,
                                         shown, m_showLine)
                      IN /\ widgets' = [widgets EXCEPT ![m_widget].visible = shown]
                         /\ m_showLine' = RestoreShowLine(oldValue, afterEmit)
                 ELSE UNCHANGED <<widgets, m_showLine>>
            /\ lastOp' = "setVisibility"
            /\ lastArg' = [val |-> val,
                           emitted |-> /\ m_widget # Null
                                       /\ widgets[m_widget].connected
                                       /\ emits]
            /\ lastSetVisibility' = {val}
            /\ UNCHANGED <<pc, proxyVars, point1, point2,
                           dataConnected, m_widget, nextWidget>>

\* The user shows or hides the line through the widget.
WidgetToggled(w, show) ==
  /\ pc # "crashed"
  /\ w \in DOMAIN widgets
  /\ widgets' = [widgets EXCEPT ![w].visible = show]
  /\ m_showLine' =
       EmitWidgetVisibilityUpdated(widgets[w].connected, TRUE, show, m_showLine)
  /\ lastOp' = "updateShowLine"
  /\ lastArg' = FALSE
  /\ UNCHANGED <<pc, proxyVars, propVars, dataConnected, m_widget, nextWidget, lastSetVisibility>>

\* The panel deletes the widget: its teardown emits
\* widgetVisibilityUpdated(false), and the QPointer m_widget goes null.
WidgetDestroyed(w, emits) ==
  /\ pc # "crashed"
  /\ w \in DOMAIN widgets
  /\ m_showLine' =
       EmitWidgetVisibilityUpdated(widgets[w].connected, emits, FALSE, m_showLine)
  /\ widgets' = [x \in DOMAIN widgets \ {w} |-> widgets[x]]
  /\ m_widget' = IF m_widget = w THEN Null ELSE m_widget
  /\ lastOp' = "widgetDestroyed"
  /\ lastArg' = [prepared |-> widgets[w].prepared, emitted |-> emits,
                 m_widget |-> m_widget = w]
  /\ UNCHANGED <<pc, proxyVars, propVars, dataConnected, nextWidget,
                 lastSetVisibility>>

\* The user commits an endpoint edit: changeFinished applies the widget's
\* points to its proxy and runs endPointsUpdated, which reads m_rulerSource.
endPointsUpdated(w, p1, p2) ==
  /\ pc = "alive"
  /\ w \in DOMAIN widgets
  /\ IF m_rulerSource = Null
       THEN Crash
       ELSE /\ IF widgets[w].proxy = m_rulerSource
                 THEN point1' = p1 /\ point2' = p2
                 ELSE UNCHANGED <<point1, point2>>
            /\ lastOp' = "endPointsUpdated"
            /\ lastArg' = FALSE
            /\ UNCHANGED <<pc, proxyVars, repVisibility,
                           dataConnected, m_showLine, widgetVars,
                           lastSetVisibility>>

\* DataSource::dataChanged reaches updateUnits, which reads m_representation.
updateUnits ==
  /\ pc = "alive"
  /\ dataConnected
  /\ IF m_representation = Null
       THEN Crash
       ELSE /\ lastOp' = "updateUnits"
            /\ lastArg' = FALSE
            /\ UNCHANGED <<pc, proxyVars, point1, point2, repVisibility,
                           dataConnected, m_showLine, widgetVars,
                           lastSetVisibility>>

\* ------------------------------------------------------------ persistence
\* A document node: the "Ruler" child with the Point1/Point2 properties, and
\* the "Representation" child with the ShowLine child (its "value" attribute
\* a string, here a tuple of characters) and the Visibility property.
NoRuler ==
  [present |-> FALSE, hasProps |-> FALSE,
   props |-> [Point1 |-> "boundsMin", Point2 |-> "boundsMin"]]
EmptyRuler == [NoRuler EXCEPT !.present = TRUE]
NoRepresentation ==
  [present |-> FALSE, hasShowLine |-> FALSE, hasValue |-> FALSE, value |-> << >>,
   hasProps |-> FALSE, props |-> [Visibility |-> 0]]
EmptyRepresentation == [NoRepresentation EXCEPT !.present = TRUE]

\* pugi::xml_attribute::set_value(bool) writes "true" or "false".
set_value(b) == IF b THEN <<"t", "r", "u", "e">> ELSE <<"f", "a", "l", "s", "e">>

\* pugi::xml_attribute::as_bool(): true when the first character is one of
\* '1', 't', 'T', 'y', 'Y'; false otherwise and for a missing attribute.
as_bool(str) == Len(str) > 0 /\ Head(str) \in {"1", "t", "T", "y", "Y"}

\* tomviz::serialize(proxy, node, properties): writes the named properties
\* of the proxy into the node; fails on a null proxy.
\* <<the node afterwards, the value returned>>
serializeProxy(proxy, node, props) ==
  IF proxy = Null
    THEN <<node, FALSE>>
    ELSE <<[node EXCEPT !.hasProps = TRUE, !.props = props], TRUE>>

\* tomviz::deserialize(proxy, node): sets the proxy's properties from the
\* node; fails on a null proxy; a missing or empty node loads nothing.
\* <<the proxy's properties afterwards, the value returned>>
deserializeProxy(proxy, node, cur) ==
  IF proxy = Null
    THEN <<cur, FALSE>>
    ELSE IF node.present /\ node.hasProps
      THEN <<node.props, TRUE>>
      ELSE <<cur, TRUE>>

\* The ShowLine child serialize appends to the Representation node.
SerializedShowLine_noAttribute(rep, showLine) == [rep EXCEPT !.hasShowLine = TRUE]
SerializedShowLine(rep, showLine) ==
  [rep EXCEPT !.hasShowLine = TRUE, !.hasValue = TRUE,
              !.value = set_value(showLine)]

\* serialize, for a module with the proxies src and rep and the properties
\* st: <<the document written, the value returned>>
serialize(src, rep, st) ==
  LET ruler == serializeProxy(src, EmptyRuler,
                              [Point1 |-> st.Point1, Point2 |-> st.Point2])
  IN IF ~ruler[2]
       THEN <<[ruler |-> ruler[1], rep |-> EmptyRepresentation], FALSE>>
       ELSE LET withShowLine ==
                  SerializedShowLine(EmptyRepresentation, st.ShowLine)
                representation ==
                  serializeProxy(rep, withShowLine,
                                 [Visibility |-> st.Visibility])
            IN <<[ruler |-> ruler[1], rep |-> representation[1]],
                 representation[2]>>

\* The properties serialize reads.
ModuleState ==
  [Point1 |-> point1, Point2 |-> point2, Visibility |-> repVisibility,
   ShowLine |-> m_showLine]

\* serialize is const: the document goes to the caller.
Serialize ==
  /\ pc = "alive"
  /\ lastOp' = "serialize"
  /\ lastArg' =
       [ret |-> serialize(m_rulerSource, m_representation, ModuleState)[2]]
  /\ UNCHANGED <<pc, proxyVars, propVars, dataConnected, m_showLine,
                 widgetVars, lastSetVisibility>>

\* Whether the document carries Representation/ShowLine/@value.
HasShowLineValue(doc) ==
  doc.rep.present /\ doc.rep.hasShowLine /\ doc.rep.hasValue

\* m_showLine after deserialize: read from the ShowLine child's value
\* attribute when the Representation node, the child and the attribute exist.
DeserializedShowLine_unchecked(rep, cur) == as_bool(rep.value)
DeserializedShowLine(rep, cur) ==
  IF rep.present /\ rep.hasShowLine /\ rep.hasValue
    THEN as_bool(rep.value)
    ELSE cur

\* deserialize(doc); from is the module state doc was serialized from, if any
deserialize(doc, from) ==
  LET ruler == deserializeProxy(m_rulerSource, doc.ruler,
                                [Point1 |-> point1, Point2 |-> point2])
      \* && short-circuits: the representation is read only if the ruler was
      representation ==
        IF ruler[2]
          THEN deserializeProxy(m_representation, doc.rep,
                                [Visibility |-> repVisibility])
          ELSE <<[Visibility |-> repVisibility], FALSE>>
      success == ruler[2] /\ representation[2]
  IN /\ pc = "alive"
     /\ point1' = ruler[1].Point1
     /\ point2' = ruler[1].Point2
     /\ repVisibility' = representation[1].Visibility
     /\ m_showLine' = DeserializedShowLine(doc.rep, m_showLine)
     /\ lastOp' = "deserialize"
     /\ lastArg' = [ret |-> success, from |-> from,
                    hasShowLineValue |-> HasShowLineValue(doc)]
     /\ UNCHANGED <<pc, proxyVars, dataConnected, widgetVars,
                    lastSetVisibility>>

\* The states of an initialized module, and the documents it serializes.
InitializedStates ==
  [Point1 : Points, Point2 : Points, Visibility : {0, 1}, ShowLine : BOOLEAN]
SerializedDocuments ==
  {[doc |-> serialize(1, 2, st)[1], from |-> {st}] : st \in InitializedStates}

\* Documents written by hand or by older versions, with nodes or attributes
\* missing.
AttrValues == {<<"1">>, <<"0">>, << >>}
ShowLineNodes ==
  {EmptyRepresentation, [EmptyRepresentation EXCEPT !.hasShowLine = TRUE]}
    \cup {[EmptyRepresentation EXCEPT !.hasShowLine = TRUE, !.hasValue = TRUE,
                                      !.value = v] : v \in AttrValues}
RepresentationNodes ==
  {NoRepresentation}
    \cup {[n EXCEPT !.hasProps = TRUE, !.props = [Visibility |-> 0]] :
            n \in ShowLineNodes}
OtherDocuments ==
  {[doc |-> [ruler |-> NoRuler, rep |-> r], from |-> {}] :
     r \in RepresentationNodes}
    \cup {[doc |-> [ruler |-> [EmptyRuler EXCEPT
                                 !.hasProps = TRUE,
                                 !.props = [Point1 |-> "boundsMax",
                                            Point2 |-> "boundsMin"]],
                    rep |-> [EmptyRepresentation EXCEPT
                               !.hasProps = TRUE,
                               !.props = [Visibility |-> 1]]],
           from |-> {}]}
Documents == SerializedDocuments \cup OtherDocuments

Next ==
  \/ \E baseOk, newOk, showOk \in BOOLEAN : initialize(baseOk, newOk, showOk)
  \/ finalize
  \/ Destructor
  \/ \E emits \in BOOLEAN : addToPanel(emits)
  \/ prepareToRemoveFromPanel
  \/ \E val, emits \in BOOLEAN : setVisibility(val, emits)
  \/ \E w \in WidgetIds, show \in BOOLEAN : WidgetToggled(w, show)
  \/ \E w \in WidgetIds, emits \in BOOLEAN : WidgetDestroyed(w, emits)
  \/ \E w \in WidgetIds, p1, p2 \in Points : endPointsUpdated(w, p1, p2)
  \/ updateUnits
  \/ Serialize
  \/ \E d \in Documents : deserialize(d.doc, d.from)

Spec == Init /\ [][Next]_vars

\* ------------------------------------------------------------------ claims
Initialized == m_rulerSource # Null /\ m_representation # Null

\* C1: in every reachable state the ruler source and the representation are
\* both non-null or both null, also after an initialize that returned false.
C1_FullyInitializedOrFinalized ==
  (m_rulerSource = Null) <=> (m_representation = Null)

\* C1 witness: initialize returned false on a module that was initialized,
\* and the module was finalized at some point before (proxies 3 and 4 live).
C1_Witness ==
  /\ lastOp = "initialize"
  /\ lastArg.ret = FALSE
  /\ Initialized
  /\ nextProxy > 3

\* C2: a setVisibility call leaves m_showLine as it was before the call,
\* whether or not the widget exists and its signal reaches updateShowLine.
C2_SetVisibilityKeepsShowLine ==
  [][(\E val, emits \in BOOLEAN : setVisibility(val, emits))
       => m_showLine' = m_showLine]_vars

\* C2 witness: setVisibility(false) hid a connected widget, the widget's
\* signal ran updateShowLine(false), and m_showLine is still true.
C2_Witness ==
  /\ lastOp = "setVisibility"
  /\ lastArg.val = FALSE
  /\ lastArg.emitted
  /\ m_showLine
  /\ ~widgets[m_widget].visible

\* C3: after finalize (or the destructor's finalize) no proxy this module
\* registered with the pipeline controller is still registered.
C3_NothingRegisteredAfterFinalize ==
  lastOp \in {"finalize", "destructor"} => registered = {}

\* C4: the teardown of a widget for which prepareToRemoveFromPanel has run
\* does not reach updateShowLine: m_showLine is unchanged by it.
C4_TeardownAfterPrepareKeepsShowLine ==
  [][\A w \in WidgetIds, emits \in BOOLEAN :
       (w \in DOMAIN widgets /\ widgets[w].prepared /\ WidgetDestroyed(w, emits))
         => m_showLine' = m_showLine]_vars

\* C4 witness: a prepared widget was destroyed, it emitted
\* widgetVisibilityUpdated(false), and m_showLine is still true.
C4_Witness ==
  /\ lastOp = "widgetDestroyed"
  /\ lastArg.prepared
  /\ lastArg.emitted
  /\ m_showLine

C6_MissingShowLineKeepsShowLine ==
  [][\A d \in Documents :
       (~HasShowLineValue(d.doc) /\ deserialize(d.doc, d.from))
         => m_showLine' = m_showLine]_vars

\* C6 witness: such a document was deserialized with success and m_showLine
\* is true afterwards.
C6_Witness ==
  /\ lastOp = "deserialize"
  /\ ~lastArg.hasShowLineValue
  /\ lastArg.ret
  /\ m_showLine

\* C7: right after finalize, isProxyPartOfModule is false for the ruler source
\* and for the representation the module owned before the call.
C7_FormerProxiesNotPartOfModule ==
  lastOp = "finalize"
    => \A p \in {lastArg.source, lastArg.representation} \ {Null} :
         ~isProxyPartOfModule(p)

\* C7 witness: finalize ran on an initialized module.
C7_Witness ==
  /\ lastOp = "finalize"
  /\ lastArg.source # Null
  /\ lastArg.representation # Null

\* C8 as stated: whenever a representation exists visibility() is the value
\* of the most recent setVisibility call, and it is false when none exists.
C8_VisibilityIsLastSetVisibility ==
  /\ \A v \in lastSetVisibility : m_representation # Null => visibility = v
  /\ m_representation = Null => visibility = FALSE

\* C8 amended: right after setVisibility(v) returns visibility() is v, and
\* visibility() is false in every state without a representation.
C8_VisibilityAfterSetVisibility ==
  /\ lastOp = "setVisibility" => visibility = lastArg.val
  /\ m_representation = Null => visibility = FALSE

\* C8 witness: setVisibility(false) returned and visibility() is false.
C8_Witness ==
  /\ lastOp = "setVisibility"
  /\ lastArg.val = FALSE
  /\ m_representation # Null
  /\ ~visibility

\* C9: the ruler source maps to "Ruler" and the representation to
\* "Representation", the strings map back to them, every other proxy (the
\* null proxy too) maps to "", every other string to null, and
\* isProxyPartOfModule(p) is true exactly when getStringForProxy(p) is not "".
OwnedProxies == {m_rulerSource, m_representation} \ {Null}
C9_IdentityMapping ==
  /\ \A p \in OwnedProxies :
       /\ getStringForProxy(p) = (IF p = m_rulerSource THEN "Ruler"
                                                        ELSE "Representation")
       /\ getProxyForString(getStringForProxy(p)) = p
  /\ \A p \in (Proxies \cup {Null}) \ OwnedProxies : getStringForProxy(p) = ""
  /\ \A str \in {"", "ruler", "Source"} : getProxyForString(str) = Null
  /\ \A p \in Proxies \cup {Null} :
       isProxyPartOfModule(p) <=> getStringForProxy(p) # ""

\* C10 as stated: whenever the endpoint widget exists it is shown exactly
\* when the module is visible and ShowLine is set.
C10_WidgetShownIffVisibleAndShowLine ==
  m_widget # Null
    => (widgets[m_widget].visible <=> (visibility /\ m_showLine))

\* C10 amended: right after setVisibility(v) the widget, if it exists, is
\* shown exactly when v and ShowLine hold; right after addToPanel it is shown
\* exactly when ShowLine holds, whatever the module's Visibility.
C10_WidgetShownAfterCall ==
  /\ (lastOp = "setVisibility" /\ m_widget # Null)
       => (widgets[m_widget].visible <=> (lastArg.val /\ m_showLine))
  /\ lastOp = "addToPanel" => (widgets[m_widget].visible <=> m_showLine)

\* C10 witness: setVisibility(true) with ShowLine off left the widget hidden.
C10_Witness ==
  /\ lastOp = "setVisibility"
  /\ m_widget # Null
  /\ lastArg.val
  /\ ~m_showLine
  /\ ~widgets[m_widget].visible
====
